---- MODULE Spec2Model ----
(***************************************************************************)
(* Model of the pharmacy client controller, src/drug_delivering_code.py:   *)
(* main / main_async / main_step (the control loop), dispense,             *)
(* report_dispensed and pack_fingerprint.                                  *)
(*                                                                         *)
(* Three specifications share the variables:                               *)
(*   Spec        the program as started by main(): the module namespace    *)
(*               binds no name `data`, so line 196 raises NameError for    *)
(*               every decoded response that is not None;                  *)
(*   SpecBranch  main_step awaited once in a module namespace in which     *)
(*               `data` is bound (the only way lines 197-223 execute);     *)
(*   SpecReport  report_dispensed called on its own with any arguments.    *)
(* The camera, the face library and the HTTP exchange are collaborators:   *)
(* each call returns a value or raises.                                    *)
(***************************************************************************)
EXTENDS Integers, Sequences, FiniteSets, TLC

----------------------------------------------------------------------------
(* Bounds of the model *)

MaxIter == 2
MaxPres == 2
MaxCfgLines == 2
MaxFaces == 2
MaxCalls == 2
FpLen == 2

----------------------------------------------------------------------------
(* Program constants *)

\* api_version = '0' (line 26)
api_version == "0"

\* asyncio.sleep(1) at the top of main_step (line 132)
PacingDelay == 1

\* asyncio.sleep(30) before the emptiness test (line 48)
SettleDelay == 30

\* asyncio.sleep(30) at the bottom of the report loop (line 89)
RetryDelay == 30

\* 2 ** 15 (line 114)
TwoTo15 == 32768

\* Fingerprint elements are written in units of 2^-16: the integer v stands
\* for the double v / 2^16, so that v / 2 is the element times 2^15.
FpUnit == 2 * TwoTo15

\* dtype=np.int16 (line 117): the range of a signed 16-bit integer
Int16Min == -TwoTo15
Int16Max == TwoTo15 - 1

----------------------------------------------------------------------------
(* Value sets *)

Dins == {"d1", "d2"}
Motors == {"m1", "m2"}
Tokens == {"t1"}
Versions == {"0", "1"}

\* -1.5, -1, -2^-16, 0, 2^-16, 1, 1.5
FpValues == {-98304, -65536, -1, 0, 1, 65536, 98304}

SeqsUpTo(S, n) == UNION {[1..k -> S] : k \in 0..n}

Fingerprints == [1..FpLen -> FpValues]

\* A decoded JSON body.  kind "null" is the JSON null, Python's None, which is
\* also the initial value of data_response (lines 69, 181).
JsonNull == [kind |-> "null", version |-> "", success |-> FALSE,
             id |-> "", prescriptions |-> <<>>]

JsonObjects == [kind : {"object"}, version : Versions, success : BOOLEAN,
                id : Tokens, prescriptions : SeqsUpTo([din : Dins], MaxPres)]

\* The module namespace has no binding for `data`.
Unbound == [kind |-> "unbound", version |-> "", success |-> FALSE,
            id |-> "", prescriptions |-> <<>>]

\* What the object returned by an un-awaited `response.json()` is: a coroutine
\* wrapping the body it would decode to.
Coroutine(body) == [kind |-> "coroutine", version |-> body.version,
                    success |-> body.success, id |-> body.id,
                    prescriptions |-> body.prescriptions]

\* Exceptions.  KeyboardInterrupt and CancelledError derive from BaseException
\* only; every other one raised here derives from Exception.
NoExc == "none"
Interrupts == {"KeyboardInterrupt", "CancelledError"}

IsException(e) == e # NoExc /\ e \notin Interrupts

Call(op, arg) == [op |-> op, arg |-> arg]

----------------------------------------------------------------------------
(* pack_fingerprint (lines 93-123) *)

\* ScaledFloor with scale = 2^15 exactly
ScaledFloor_ExactScale(v) == v \div 2

\* np.floor(x * scale) with scale = (1 - 2^-53) * 2^15 = 2^15 - 2^-38, for
\* the double x = v / 2^16.  The product rounds to the double just below
\* |x| * 2^15 in magnitude, so the floor is floor(x * 2^15), except that a
\* positive whole x * 2^15 gives one less.
ScaledFloor(v) ==
    IF v > 0 /\ v % 2 = 0 THEN (v \div 2) - 1 ELSE v \div 2

\* np.array(..., dtype=np.int16): the value kept in 16 bits, two's complement
ToInt16(n) == ((n + TwoTo15) % (2 * TwoTo15)) - TwoTo15

\* struct.pack('<h', n): the two bytes of n, low byte first
PackShort(n) ==
    LET u == n % (2 * TwoTo15) IN <<u % 256, u \div 256>>

RECURSIVE PackValues(_)
PackValues(values) ==
    IF values = <<>> THEN <<>>
    ELSE PackShort(Head(values)) \o PackValues(Tail(values))

\* pack_fingerprint without the test of line 103
pack_fingerprint_NoLowerTest(fingerprint) ==
    IF \E i \in DOMAIN fingerprint : fingerprint[i] > FpUnit
    THEN [exc |-> "ValueError", values |-> <<>>, bytes |-> <<>>]
    ELSE LET values == [i \in DOMAIN fingerprint |->
                           ToInt16(ScaledFloor(fingerprint[i]))]
         IN  [exc |-> NoExc, values |-> values, bytes |-> PackValues(values)]

\* The result of pack_fingerprint(fingerprint): the exception raised, if any,
\* the int16 vector of line 117 and the bytes of line 121.
pack_fingerprint(fingerprint) ==
    IF \E i \in DOMAIN fingerprint : fingerprint[i] > FpUnit
    THEN [exc |-> "ValueError", values |-> <<>>, bytes |-> <<>>]
    ELSE IF \E i \in DOMAIN fingerprint : fingerprint[i] < -FpUnit
    THEN [exc |-> "ValueError", values |-> <<>>, bytes |-> <<>>]
    ELSE LET values == [i \in DOMAIN fingerprint |->
                           ToInt16(ScaledFloor(fingerprint[i]))]
         IN  [exc |-> NoExc, values |-> values, bytes |-> PackValues(values)]

----------------------------------------------------------------------------
(* State *)

VARIABLES
    pc,                 \* position of main / main_async / main_step
    iter,               \* iterations of the main loop started so far
    din_to_motor,       \* the module global of line 29
    data,               \* the module namespace's binding of `data`, or Unbound
    camera,             \* "none", "held" (VideoCapture open) or "released"
    now,                \* the clock read by utcnow (line 45)
    succeeded,          \* main_step's local (line 137): "unset", "True", "False"
    num_faces,          \* main_step's local (line 151), -1 while unset
    fingerprint,        \* main_step's local (line 162)
    packed_fingerprint, \* main_step's local (line 167)
    data_response,      \* main_step's local (lines 181, 192)
    exc,                \* the exception propagating out of main_step
    prev,               \* how the previous iteration ended
    calls,              \* the calls made by the current iteration, in order
    auth_token,         \* main_step's local (line 200)
    drugs_dispensed,    \* the list object of line 202, shared with the report
    pres_idx,           \* position of the for loop of line 207
    rpc,                \* position of the report_dispensed task
    ts,                 \* report_dispensed's local (line 45)
    data_send,          \* report_dispensed's local (lines 62-67)
    r_body,             \* body of the last report response received
    r_sent,             \* the report requests sent, in order
    r_exc,              \* the exception report_dispensed raised
    r_result,           \* the value report_dispensed returned
    d_result            \* the last direct call of dispense and how it ended

vars == <<pc, iter, din_to_motor, data, camera, now, fingerprint,
          packed_fingerprint, data_response, exc, prev, calls, auth_token,
          drugs_dispensed, pres_idx, rpc, ts, data_send, r_body, r_sent,
          r_exc, r_result, succeeded, num_faces, d_result>>

mainLocals == <<succeeded, num_faces, fingerprint, packed_fingerprint,
                data_response, auth_token, pres_idx>>
reportVars == <<rpc, ts, data_send, r_body, r_sent, r_exc, r_result>>

NoSend == [version |-> "", id |-> "", din |-> <<>>, timestamp |-> -1]

\* No direct call of dispense has been made
NoDispense == [din |-> "", exc |-> NoExc, value |-> FALSE]

----------------------------------------------------------------------------
(* main (lines 257-270) *)

\* The lines of din.cfg: <<din, motor>> pairs
Configs == SeqsUpTo(Dins \X Motors, MaxCfgLines)

\* din_to_motor[din] = motor for each line in order (lines 266-268)
RECURSIVE LoadConfig(_, _)
LoadConfig(map, lines) ==
    IF lines = <<>> THEN map
    ELSE LET din == Head(lines)[1]
             motor == Head(lines)[2]
         IN  LoadConfig([d \in DOMAIN map \cup {din} |->
                            IF d = din THEN motor ELSE map[d]],
                        Tail(lines))

Main ==
    /\ pc = "main"
    /\ \E cfg \in Configs : din_to_motor' = LoadConfig(din_to_motor, cfg)
    /\ pc' = "main_async"
    /\ UNCHANGED <<iter, data, camera, now, exc, prev, calls,
                   drugs_dispensed, mainLocals, reportVars>>
    /\ UNCHANGED d_result

----------------------------------------------------------------------------
(* main_async (lines 225-255) *)

\* capture = cv2.VideoCapture(0) (line 233)
MainAsyncStart ==
    /\ pc = "main_async"
    /\ camera' = "held"
    /\ pc' = "loop"
    /\ UNCHANGED <<iter, din_to_motor, data, now, exc, prev, calls,
                   drugs_dispensed, mainLocals, reportVars>>
    /\ UNCHANGED d_result

\* LoopTop reading din.cfg again at the start of every iteration
LoopTop_ReloadsConfig ==
    /\ pc = "loop"
    /\ iter < MaxIter
    /\ iter' = iter + 1
    /\ \E cfg \in Configs : din_to_motor' = LoadConfig(din_to_motor, cfg)
    /\ pc' = "pace"
    /\ calls' = <<>>
    /\ succeeded' = "unset"
    /\ num_faces' = -1
    /\ fingerprint' = <<>>
    /\ packed_fingerprint' = <<>>
    /\ data_response' = JsonNull
    /\ auth_token' = ""
    /\ pres_idx' = 0
    /\ UNCHANGED <<data, camera, now, exc, prev, drugs_dispensed, reportVars,
                   d_result>>

\* while True: ... await main_step(capture) (lines 236-242); main_step starts
\* with fresh locals.
LoopTop ==
    /\ pc = "loop"
    /\ iter < MaxIter
    /\ iter' = iter + 1
    /\ pc' = "pace"
    /\ calls' = <<>>
    /\ succeeded' = "unset"
    /\ num_faces' = -1
    /\ fingerprint' = <<>>
    /\ packed_fingerprint' = <<>>
    /\ data_response' = JsonNull
    /\ auth_token' = ""
    /\ pres_idx' = 0
    /\ UNCHANGED <<din_to_motor, data, camera, now, exc, prev,
                   drugs_dispensed, reportVars>>
    /\ UNCHANGED d_result

\* ExceptClause without the catch-all clause of lines 247-249
ExceptClause_NoCatchAll(e) ==
    IF e = "KeyboardInterrupt" THEN "reraise" ELSE "propagate"

\* Which except clause of lines 243-249 takes exception e: "reraise" (243-246),
\* "log" (247-249), or "propagate" when neither matches.
ExceptClause(e) ==
    IF e = "KeyboardInterrupt" THEN "reraise"
    ELSE IF IsException(e) THEN "log"
    ELSE "propagate"

\* main_step raised (lines 243-249).  A logged exception ends the iteration and
\* the loop goes round; the others leave main_async, past lines 251-255, which
\* no path reaches.
MainAsyncExcept ==
    /\ pc = "raised"
    /\ IF ExceptClause(exc) = "log"
       THEN /\ pc' = "loop"
            /\ prev' = exc
            /\ exc' = NoExc
       ELSE /\ pc' = "exited"
            /\ UNCHANGED <<prev, exc>>
    /\ UNCHANGED <<iter, din_to_motor, data, camera, now, calls,
                   drugs_dispensed, mainLocals, reportVars>>
    /\ UNCHANGED d_result

\* main_step returned (line 242 completes); the loop goes round.
MainAsyncNext ==
    /\ pc = "returned"
    /\ pc' = "loop"
    /\ prev' = "returned"
    /\ UNCHANGED <<iter, din_to_motor, data, camera, now, exc, calls,
                   drugs_dispensed, mainLocals, reportVars>>
    /\ UNCHANGED d_result

StepPcs == {"pace", "capture", "detect", "encode", "pack", "request",
            "check", "spawn", "await", "dispense"}

ReportPending == rpc \in {"entered", "settle", "test", "send", "handle"}

\* The operator's SIGINT while the loop runs.  It reaches main_step as a
\* KeyboardInterrupt raised in the running code, or as the CancelledError of
\* the cancelled main task, and unwinds main_step's frame; outside the try
\* block it leaves main_async at once.  A report task being awaited is
\* cancelled with it.
Interrupt ==
    /\ pc \in StepPcs \cup {"loop"}
    /\ \E e \in Interrupts : exc' = e
    /\ pc' = IF pc = "loop" THEN "exited" ELSE "raised"
    /\ rpc' = IF ReportPending THEN "cancelled" ELSE rpc
    /\ succeeded' = "unset"
    /\ num_faces' = -1
    /\ fingerprint' = <<>>
    /\ packed_fingerprint' = <<>>
    /\ data_response' = JsonNull
    /\ auth_token' = ""
    /\ pres_idx' = 0
    /\ UNCHANGED <<iter, din_to_motor, data, camera, now, prev, calls,
                   drugs_dispensed, ts, data_send, r_body, r_sent, r_exc,
                   r_result>>
    /\ UNCHANGED d_result

----------------------------------------------------------------------------
(* main_step (lines 125-223) *)

\* await asyncio.sleep(1) (line 132)
StepPace ==
    /\ pc = "pace"
    /\ now' = now + PacingDelay
    /\ pc' = "capture"
    /\ UNCHANGED <<iter, din_to_motor, data, camera, exc, prev, calls,
                   drugs_dispensed, mainLocals, reportVars>>
    /\ UNCHANGED d_result

\* StepCapture without the early return of line 142
StepCapture_NoEarlyReturn ==
    /\ pc = "capture"
    /\ calls' = Append(calls, Call("capture", ""))
    /\ \E ok \in {"True", "False"} : succeeded' = ok
    /\ pc' = "detect"
    /\ UNCHANGED <<iter, din_to_motor, data, camera, now, exc, prev,
                   drugs_dispensed, num_faces, fingerprint,
                   packed_fingerprint, data_response, auth_token, pres_idx,
                   reportVars>>
    /\ UNCHANGED d_result

\* succeeded, pixels = capture.read(); if not succeeded: return (lines 137-142)
StepCapture ==
    /\ pc = "capture"
    /\ calls' = Append(calls, Call("capture", ""))
    /\ \E ok \in {"True", "False"} : succeeded' = ok
    /\ pc' = IF succeeded' = "True" THEN "detect" ELSE "returned"
    /\ UNCHANGED <<iter, din_to_motor, data, camera, now, exc, prev,
                   drugs_dispensed, num_faces, fingerprint,
                   packed_fingerprint, data_response, auth_token, pres_idx,
                   reportVars>>
    /\ UNCHANGED d_result

\* cvtColor and face_locations; if num_faces == 0: return (lines 145-156).
\* Either library call may raise.
StepDetect ==
    /\ pc = "detect"
    /\ calls' = Append(calls, Call("detect", ""))
    /\ \/ /\ exc' = "cv2.error"
          /\ pc' = "raised"
          /\ UNCHANGED num_faces
       \/ /\ \E n \in 0..MaxFaces : num_faces' = n
          /\ pc' = IF num_faces' = 0 THEN "returned" ELSE "encode"
          /\ UNCHANGED exc
    /\ UNCHANGED <<iter, din_to_motor, data, camera, now, prev,
                   drugs_dispensed, succeeded, fingerprint,
                   packed_fingerprint, data_response, auth_token, pres_idx,
                   reportVars>>
    /\ UNCHANGED d_result

\* fingerprint = face_encodings(pixels, face_boxes)[0] (lines 161-162)
StepEncode ==
    /\ pc = "encode"
    /\ calls' = Append(calls, Call("encode", ""))
    /\ \E fp \in Fingerprints : fingerprint' = fp
    /\ pc' = "pack"
    /\ UNCHANGED <<iter, din_to_motor, data, camera, now, exc, prev,
                   drugs_dispensed, succeeded, num_faces, packed_fingerprint,
                   data_response, auth_token, pres_idx, reportVars>>
    /\ UNCHANGED d_result

\* packed_fingerprint = pack_fingerprint(fingerprint) (line 167)
StepPack ==
    /\ pc = "pack"
    /\ calls' = Append(calls, Call("pack", ""))
    /\ LET r == pack_fingerprint(fingerprint) IN
          IF r.exc # NoExc
          THEN /\ exc' = r.exc
               /\ pc' = "raised"
               /\ UNCHANGED packed_fingerprint
          ELSE /\ packed_fingerprint' = r.bytes
               /\ pc' = "request"
               /\ UNCHANGED exc
    /\ UNCHANGED <<iter, din_to_motor, data, camera, now, prev,
                   drugs_dispensed, succeeded, num_faces, fingerprint,
                   data_response, auth_token, pres_idx, reportVars>>
    /\ UNCHANGED d_result

\* StepRequest sending the request again after a failed exchange
StepRequest_RetryOnError ==
    /\ pc = "request"
    /\ calls' = Append(calls, Call("authenticate", ""))
    /\ \/ /\ pc' = "request"
          /\ UNCHANGED <<data_response, fingerprint, packed_fingerprint>>
       \/ /\ \E body \in {JsonNull} \cup JsonObjects : data_response' = body
          /\ pc' = "check"
          /\ fingerprint' = <<>>
          /\ packed_fingerprint' = <<>>
    /\ UNCHANGED <<iter, din_to_motor, data, camera, now, exc, prev,
                   drugs_dispensed, succeeded, num_faces, auth_token,
                   pres_idx, reportVars, d_result>>

\* The GET of /user/pharmacy_get and data_response = await response.json()
\* (lines 172-194): the exchange raises, or the body decodes to a JSON value.
StepRequest ==
    /\ pc = "request"
    /\ calls' = Append(calls, Call("authenticate", ""))
    /\ \/ /\ exc' = "ClientError"
          /\ pc' = "raised"
          /\ UNCHANGED data_response
       \/ /\ \E body \in {JsonNull} \cup JsonObjects : data_response' = body
          /\ pc' = "check"
          /\ UNCHANGED exc
    /\ fingerprint' = <<>>
    /\ packed_fingerprint' = <<>>
    /\ UNCHANGED <<iter, din_to_motor, data, camera, now, prev,
                   drugs_dispensed, succeeded, num_faces, auth_token,
                   pres_idx, reportVars>>
    /\ UNCHANGED d_result

\* The test of line 196, left to right:
\*   data_response is not None and data.get('success', None)
\*                             and data['version'] == api_version
\* with `data` looked up in the module namespace.
StepCondition(response, d) ==
    IF response.kind = "null" THEN "false"
    ELSE IF d.kind = "unbound" THEN "NameError"
    ELSE IF ~d.success THEN "false"
    ELSE IF d.version # api_version THEN "false"
    ELSE "true"

\* Line 196: into the branch of line 197, or past it to the end of main_step.
StepCheck ==
    /\ pc = "check"
    /\ LET c == StepCondition(data_response, data) IN
          /\ pc' = CASE c = "NameError" -> "raised"
                     [] c = "true" -> "spawn"
                     [] OTHER -> "returned"
          /\ exc' = IF c = "NameError" THEN "NameError" ELSE exc
    /\ UNCHANGED <<iter, din_to_motor, data, camera, now, prev, calls,
                   drugs_dispensed, mainLocals, reportVars>>
    /\ UNCHANGED d_result

----------------------------------------------------------------------------
(* dispense (lines 31-38) *)

\* motor = din_to_motor[din] raises KeyError for a din that is not a key;
\* otherwise the function returns False.
dispense(din) ==
    IF din \notin DOMAIN din_to_motor
    THEN [exc |-> "KeyError", value |-> FALSE]
    ELSE [exc |-> NoExc, value |-> FALSE]

----------------------------------------------------------------------------
(* report_dispensed (lines 40-91) *)

\* A report response body: {version, success}
ReportBodies == {b \in JsonObjects : b.id = "t1" /\ b.prescriptions = <<>>}
                    \cup {JsonNull}

\* ts = datetime.datetime.utcnow().timestamp() (line 45)
ReportEnter ==
    /\ rpc = "entered"
    /\ ts' = now
    /\ rpc' = "settle"
    /\ UNCHANGED <<pc, iter, din_to_motor, data, camera, now, exc, prev,
                   calls, drugs_dispensed, mainLocals, data_send, r_body,
                   r_sent, r_exc, r_result>>
    /\ UNCHANGED d_result

\* await asyncio.sleep(30) (line 48)
ReportSettle ==
    /\ rpc = "settle"
    /\ now' = now + SettleDelay
    /\ rpc' = "test"
    /\ UNCHANGED <<pc, iter, din_to_motor, data, camera, exc, prev, calls,
                   drugs_dispensed, mainLocals, ts, data_send, r_body, r_sent,
                   r_exc, r_result>>
    /\ UNCHANGED d_result

\* ReportTest without the emptiness test of lines 51-53
ReportTest_NoEmptyTest ==
    /\ rpc = "test"
    /\ data_send' = [version |-> api_version, id |-> auth_token,
                     din |-> drugs_dispensed, timestamp |-> ts]
    /\ rpc' = "send"
    /\ UNCHANGED <<pc, iter, din_to_motor, data, camera, now, exc, prev,
                   calls, drugs_dispensed, mainLocals, ts, r_body, r_sent,
                   r_exc, r_result, d_result>>

\* ReportTest with the timestamp read when data_send is built
ReportTest_TimestampNow ==
    /\ rpc = "test"
    /\ IF drugs_dispensed = <<>>
       THEN /\ r_result' = "True"
            /\ rpc' = "done"
            /\ UNCHANGED data_send
       ELSE /\ data_send' = [version |-> api_version, id |-> auth_token,
                             din |-> drugs_dispensed, timestamp |-> now]
            /\ rpc' = "send"
            /\ UNCHANGED r_result
    /\ UNCHANGED <<pc, iter, din_to_motor, data, camera, now, exc, prev,
                   calls, drugs_dispensed, mainLocals, ts, r_body, r_sent,
                   r_exc, d_result>>

\* if not drugs_dispensed: return True; otherwise the session is opened and
\* data_send is built (lines 51-69)
ReportTest ==
    /\ rpc = "test"
    /\ IF drugs_dispensed = <<>>
       THEN /\ r_result' = "True"
            /\ rpc' = "done"
            /\ UNCHANGED data_send
       ELSE /\ data_send' = [version |-> api_version, id |-> auth_token,
                             din |-> drugs_dispensed, timestamp |-> ts]
            /\ rpc' = "send"
            /\ UNCHANGED r_result
    /\ UNCHANGED <<pc, iter, din_to_motor, data, camera, now, exc, prev,
                   calls, drugs_dispensed, mainLocals, ts, r_body, r_sent,
                   r_exc>>
    /\ UNCHANGED d_result

\* while data_response is None: the GET of /user/pharmacy_done with data_send
\* (lines 72-78): the exchange raises, or a response arrives.
ReportSend ==
    /\ rpc = "send"
    /\ \/ /\ r_exc' = "ClientError"
          /\ rpc' = "failed"
          /\ UNCHANGED <<r_body, r_sent>>
       \/ /\ \E body \in ReportBodies : r_body' = body
          /\ r_sent' = Append(r_sent, data_send)
          /\ rpc' = "handle"
          /\ UNCHANGED r_exc
    /\ UNCHANGED <<pc, iter, din_to_motor, data, camera, now, exc, prev,
                   calls, drugs_dispensed, mainLocals, ts, data_send,
                   r_result>>
    /\ UNCHANGED d_result

\* data_response = response.json() (line 81): the call is not awaited, so the
\* value is the coroutine object, not the decoded body.
ReportJson(body) == Coroutine(body)

\* ReportVerdict reading only the success flag: no version test, and the
\* response taken as the decoded body
ReportVerdict_SuccessOnly(response) ==
    IF ~response.success THEN "retry" ELSE "confirmed"

\* Lines 83-87 on data_response: subscripting a coroutine (or None) raises
\* TypeError; a dict is tested for its version, then for its success flag.
ReportVerdict(response) ==
    IF response.kind # "object" THEN "TypeError"
    ELSE IF response.version # api_version THEN "AssertionError"
    ELSE IF ~response.success THEN "retry"
    ELSE "confirmed"

\* Lines 81-91: the verdict on the response; unless it raises, the sleep of
\* line 89, then the loop test of line 72: another request after "retry"
\* (data_response = None), else the function ends, returning None.
ReportHandle ==
    /\ rpc = "handle"
    /\ LET verdict == ReportVerdict(ReportJson(r_body)) IN
          CASE verdict \in {"TypeError", "AssertionError"} ->
                  /\ r_exc' = verdict
                  /\ rpc' = "failed"
                  /\ UNCHANGED <<now, r_result>>
            [] verdict = "retry" ->
                  /\ now' = now + RetryDelay
                  /\ rpc' = "send"
                  /\ UNCHANGED <<r_exc, r_result>>
            [] OTHER ->
                  /\ now' = now + RetryDelay
                  /\ r_result' = "None"
                  /\ rpc' = "done"
                  /\ UNCHANGED r_exc
    /\ UNCHANGED <<pc, iter, din_to_motor, data, camera, exc, prev, calls,
                   drugs_dispensed, mainLocals, ts, data_send, r_body,
                   r_sent>>
    /\ UNCHANGED d_result

----------------------------------------------------------------------------
(* main_step, the branch of lines 197-223 *)

\* auth_token = data['id']; drugs_dispensed = []; the report task is created
\* with them (lines 200-204) and starts with fresh locals.
StepSpawn ==
    /\ pc = "spawn"
    /\ auth_token' = data.id
    /\ drugs_dispensed' = <<>>
    /\ calls' = Append(calls, Call("report", ""))
    /\ rpc' = "entered"
    /\ ts' = -1
    /\ data_send' = NoSend
    /\ r_body' = JsonNull
    /\ r_sent' = <<>>
    /\ r_exc' = NoExc
    /\ r_result' = "none"
    /\ pc' = "await"
    /\ UNCHANGED <<iter, din_to_motor, data, camera, now, exc, prev,
                   succeeded, num_faces, fingerprint, packed_fingerprint,
                   data_response, pres_idx>>
    /\ UNCHANGED d_result

\* await asyncio.create_task(...) (line 204): main_step goes on only when the
\* task has ended, and an exception of the task is raised here.
StepAwait ==
    /\ pc = "await"
    /\ rpc \in {"done", "failed"}
    /\ IF rpc = "failed"
       THEN /\ exc' = r_exc
            /\ pc' = "raised"
            /\ UNCHANGED pres_idx
       ELSE /\ pc' = "dispense"
            /\ pres_idx' = 1
            /\ UNCHANGED exc
    /\ UNCHANGED <<iter, din_to_motor, data, camera, now, prev, calls,
                   drugs_dispensed, succeeded, num_faces, fingerprint,
                   packed_fingerprint, data_response, auth_token, reportVars>>
    /\ UNCHANGED d_result

\* DinInPharmacy without the membership test: every din is taken as stocked
DinInPharmacy_Always(din) == TRUE

\* if din in din_to_motor (line 212)
DinInPharmacy(din) == din \in DOMAIN din_to_motor

\* One round of for pres in data['prescriptions'] (lines 207-223); main_step
\* ends when the list is exhausted.
StepDispense ==
    /\ pc = "dispense"
    /\ IF pres_idx > Len(data.prescriptions)
       THEN /\ pc' = "returned"
            /\ UNCHANGED <<exc, calls, drugs_dispensed, pres_idx>>
       ELSE LET din == data.prescriptions[pres_idx].din IN
            IF DinInPharmacy(din)
            THEN LET r == dispense(din) IN
                 /\ calls' = Append(calls, Call("dispense", din))
                 /\ IF r.exc # NoExc
                    THEN /\ exc' = r.exc
                         /\ pc' = "raised"
                         /\ UNCHANGED <<drugs_dispensed, pres_idx>>
                    ELSE /\ drugs_dispensed' =
                               IF r.value THEN Append(drugs_dispensed, din)
                               ELSE drugs_dispensed
                         /\ pres_idx' = pres_idx + 1
                         /\ UNCHANGED <<exc, pc>>
            ELSE /\ pres_idx' = pres_idx + 1
                 /\ UNCHANGED <<exc, pc, calls, drugs_dispensed>>
    /\ UNCHANGED <<iter, din_to_motor, data, camera, now, prev, succeeded,
                   num_faces, fingerprint, packed_fingerprint, data_response,
                   auth_token, reportVars>>
    /\ UNCHANGED d_result

----------------------------------------------------------------------------
(* The program as started by main() *)

Init ==
    /\ pc = "main"
    /\ iter = 0
    /\ din_to_motor = <<>>
    /\ data = Unbound
    /\ camera = "none"
    /\ now = 0
    /\ fingerprint = <<>>
    /\ packed_fingerprint = <<>>
    /\ data_response = JsonNull
    /\ exc = NoExc
    /\ prev = "none"
    /\ calls = <<>>
    /\ auth_token = ""
    /\ drugs_dispensed = <<>>
    /\ pres_idx = 0
    /\ rpc = "none"
    /\ ts = -1
    /\ data_send = NoSend
    /\ r_body = JsonNull
    /\ r_sent = <<>>
    /\ r_exc = NoExc
    /\ r_result = "none"
    /\ succeeded = "unset"
    /\ num_faces = -1
    /\ d_result = NoDispense

Next ==
    \/ Main
    \/ MainAsyncStart
    \/ LoopTop
    \/ MainAsyncExcept
    \/ MainAsyncNext
    \/ Interrupt
    \/ StepPace
    \/ StepCapture
    \/ StepDetect
    \/ StepEncode
    \/ StepPack
    \/ StepRequest
    \/ StepCheck

Spec == Init /\ [][Next]_vars

----------------------------------------------------------------------------
(* main_step(capture) awaited once, after main has loaded din_to_motor and  *)
(* main_async has opened the camera, in a module namespace that binds       *)
(* `data` to a dict                                                         *)

\* The maps main can load
LoadedMaps == {LoadConfig(<<>>, cfg) : cfg \in Configs}

InitBranch ==
    /\ pc = "pace"
    /\ iter = 1
    /\ din_to_motor \in LoadedMaps
    /\ data \in JsonObjects
    /\ camera = "held"
    /\ now = 0
    /\ fingerprint = <<>>
    /\ packed_fingerprint = <<>>
    /\ data_response = JsonNull
    /\ exc = NoExc
    /\ prev = "none"
    /\ calls = <<>>
    /\ auth_token = ""
    /\ drugs_dispensed = <<>>
    /\ pres_idx = 0
    /\ rpc = "none"
    /\ ts = -1
    /\ data_send = NoSend
    /\ r_body = JsonNull
    /\ r_sent = <<>>
    /\ r_exc = NoExc
    /\ r_result = "none"
    /\ succeeded = "unset"
    /\ num_faces = -1
    /\ d_result = NoDispense

NextBranch ==
    \/ StepPace
    \/ StepCapture
    \/ StepDetect
    \/ StepEncode
    \/ StepPack
    \/ StepRequest
    \/ StepCheck
    \/ StepSpawn
    \/ StepAwait
    \/ StepDispense
    \/ ReportEnter
    \/ ReportSettle
    \/ ReportTest

SpecBranch == InitBranch /\ [][NextBranch]_vars

----------------------------------------------------------------------------
(* report_dispensed(auth_token, drugs_dispensed) called on its own *)

StartTimes == {0, 7}

InitReport ==
    /\ pc = "report"
    /\ iter = 0
    /\ din_to_motor = <<>>
    /\ data = Unbound
    /\ camera = "none"
    /\ now \in StartTimes
    /\ fingerprint = <<>>
    /\ packed_fingerprint = <<>>
    /\ data_response = JsonNull
    /\ exc = NoExc
    /\ prev = "none"
    /\ calls = <<>>
    /\ auth_token \in Tokens
    /\ drugs_dispensed \in SeqsUpTo(Dins, MaxPres)
    /\ pres_idx = 0
    /\ rpc = "entered"
    /\ ts = -1
    /\ data_send = NoSend
    /\ r_body = JsonNull
    /\ r_sent = <<>>
    /\ r_exc = NoExc
    /\ r_result = "none"
    /\ succeeded = "unset"
    /\ num_faces = -1
    /\ d_result = NoDispense

NextReport ==
    \/ ReportEnter
    \/ ReportSettle
    \/ ReportTest
    \/ ReportSend
    \/ ReportHandle

SpecReport == InitReport /\ [][NextReport]_vars

----------------------------------------------------------------------------
(* dispense(din) called on its own, after main has loaded din_to_motor *)

\* The arguments of the direct calls: the dins a config can name, and one
\* that no config names
DinArgs == Dins \cup {"d0"}

InitDispense ==
    /\ pc = "dispense_call"
    /\ iter = 0
    /\ din_to_motor \in LoadedMaps
    /\ data = Unbound
    /\ camera = "none"
    /\ now = 0
    /\ fingerprint = <<>>
    /\ packed_fingerprint = <<>>
    /\ data_response = JsonNull
    /\ exc = NoExc
    /\ prev = "none"
    /\ calls = <<>>
    /\ auth_token = ""
    /\ drugs_dispensed = <<>>
    /\ pres_idx = 0
    /\ rpc = "none"
    /\ ts = -1
    /\ data_send = NoSend
    /\ r_body = JsonNull
    /\ r_sent = <<>>
    /\ r_exc = NoExc
    /\ r_result = "none"
    /\ succeeded = "unset"
    /\ num_faces = -1
    /\ d_result = NoDispense

\* await dispense(din) (lines 31-38): the call reads din_to_motor and ends
\* with the exception or the value of dispense(din).
DispenseCall ==
    /\ pc = "dispense_call"
    /\ Len(calls) < MaxCalls
    /\ \E din \in DinArgs :
          /\ d_result' = [din |-> din, exc |-> dispense(din).exc,
                          value |-> dispense(din).value]
          /\ calls' = Append(calls, Call("dispense", din))
    /\ UNCHANGED <<pc, iter, din_to_motor, data, camera, now, exc, prev,
                   drugs_dispensed, mainLocals, reportVars>>

NextDispense ==
    \/ DispenseCall

SpecDispense == InitDispense /\ [][NextDispense]_vars

----------------------------------------------------------------------------
(* Properties *)

Ended == pc \in {"returned", "raised"}

\* The authenticate response of this iteration is a match: an object with
\* success true and the expected version
Matched(response) ==
    /\ response.kind = "object"
    /\ response.success
    /\ response.version = api_version

CallsOf(op) == {i \in DOMAIN calls : calls[i].op = op}

Stocked(din) == din \in DOMAIN din_to_motor

\* C1: failure isolation.  main_async leaves its loop only on the operator's
\* interrupt, and whenever main_step has raised any other exception the next
\* step of main_async is back at the top of the loop, with the exception
\* dropped.
C1_FailureIsolation ==
    /\ [](pc = "exited" => exc \in Interrupts)
    /\ [][(pc = "raised" /\ IsException(exc)) =>
             (pc' = "loop" /\ exc' = NoExc /\ iter' = iter)]_vars

\* C1 witness: an iteration that follows one ended by an exception has
\* captured, encoded and authenticated, and holds the response.
C1_Witness ==
    /\ iter >= 2
    /\ IsException(prev)
    /\ pc = "check"
    /\ CallsOf("capture") # {} /\ CallsOf("encode") # {}
    /\ CallsOf("authenticate") # {}

\* C2: whenever main_async has been left (by the operator's interrupt), the
\* camera has been released.
C2_ReleaseBeforeExit ==
    pc = "exited" => camera = "released"

ReportOnlyPendingWhileAwaited ==
    ReportPending => pc = "await"

\* C4: an iteration whose authenticate response is a match hands the dispensed
\* list to report_dispensed exactly once, after every dispense call of the
\* iteration.
C4_ListHandedOnceAfterDispense ==
    (Ended /\ Matched(data_response)) =>
        /\ Cardinality(CallsOf("report")) = 1
        /\ \A r \in CallsOf("report") : \A d \in CallsOf("dispense") : d < r

\* C5: an iteration whose authenticate response is a match returns normally,
\* having called dispense for every prescription of the response whose din is
\* in din_to_motor and having spawned the report.
C5_MatchDispensesAndReports ==
    (Ended /\ Matched(data_response)) =>
        /\ pc = "returned"
        /\ \A i \in DOMAIN data_response.prescriptions :
              Stocked(data_response.prescriptions[i].din) =>
                 \E c \in CallsOf("dispense") :
                    calls[c].arg = data_response.prescriptions[i].din
        /\ CallsOf("report") # {}

Nack(body) ==
    body.kind = "object" /\ body.version = api_version /\ ~body.success
Ack(body) ==
    body.kind = "object" /\ body.version = api_version /\ body.success

\* C7: poll until acknowledged.  report_dispensed never ends (by return or by
\* exception) on a response with the expected version and success false: it
\* goes on to another request; and having sent a request it returns only
\* after a response with success true.
C7_PollUntilAcknowledged ==
    /\ rpc \in {"done", "failed"} => ~Nack(r_body)
    /\ (rpc = "done" /\ r_sent # <<>>) => Ack(r_body)

VersionMismatch(body) ==
    body.kind = "object" /\ body.version # api_version

\* C8: once report_dispensed has dealt with a response of another version it
\* has ended with an exception: it is not back at sending a request, it has
\* returned nothing, and the one request is all it sent for that response.
C8_ReportMismatchAborts ==
    (VersionMismatch(r_body) /\ rpc # "handle") =>
        /\ rpc = "failed"
        /\ r_exc # NoExc
        /\ r_result = "none"

\* C8 witness: report_dispensed has ended with an exception on a response that
\* carries another version.
C8_Witness ==
    /\ VersionMismatch(r_body)
    /\ rpc = "failed"
    /\ r_exc # NoExc
    /\ Len(r_sent) = 1

\* An authenticate response that says "no match"
NoMatchBodies ==
    {b \in JsonObjects : b.version = api_version /\ ~b.success}

\* C9: an iteration whose authenticate response carries another version ends
\* with an error, and what line 196 makes of that response differs from what
\* it makes of every no-match response.
C9_MismatchDistinctFromNoMatch ==
    (Ended /\ VersionMismatch(data_response)) =>
        /\ pc = "raised"
        /\ \A b \in NoMatchBodies :
              StepCondition(b, data) # StepCondition(data_response, data)

\* C10: an iteration whose authenticate response has success false returns
\* normally, without an exception, a dispense call or a report.
C10_NoMatchReturnsNormally ==
    (Ended /\ data_response.kind = "object" /\ ~data_response.success) =>
        /\ pc = "returned"
        /\ exc = NoExc
        /\ CallsOf("dispense") = {}
        /\ CallsOf("report") = {}

\* C11: report_dispensed called with an empty list sends no report request,
\* never reaches the request loop or an exception, and when it has ended it
\* has returned True.
C11_EmptyListNoRequest ==
    drugs_dispensed = <<>> =>
        /\ r_sent = <<>>
        /\ rpc \in {"entered", "settle", "test", "done"}
        /\ r_exc = NoExc
        /\ rpc = "done" => r_result = "True"

\* C11 witness: a call with an empty list has returned True with nothing sent.
C11_Witness ==
    /\ drugs_dispensed = <<>>
    /\ rpc = "done"
    /\ r_result = "True"
    /\ r_sent = <<>>

\* C12: a call of report_dispensed with an empty list has, when it returns,
\* waited no delay: the clock still reads what it read on entry (ts).
C12_EmptyListNoDelay ==
    (drugs_dispensed = <<>> /\ rpc = "done") => now = ts

\* C13: a call of dispense with a din that is not a key of din_to_motor ends
\* without an exception and returns false.
C13_AbsentDinReturnsFalse ==
    (d_result.din # "" /\ d_result.din \notin DOMAIN din_to_motor) =>
        /\ d_result.exc = NoExc
        /\ d_result.value = FALSE

\* C14: once the capture read has failed, or face detection has found no
\* face, the iteration makes no encode, pack, authenticate, dispense or report
\* call, raises no exception of its own, and when main_step has ended it has
\* returned normally.
C14_EarlyReturn ==
    (succeeded = "False" \/ num_faces = 0) =>
        /\ CallsOf("encode") = {}
        /\ CallsOf("pack") = {}
        /\ CallsOf("authenticate") = {}
        /\ CallsOf("dispense") = {}
        /\ CallsOf("report") = {}
        /\ exc = NoExc
        /\ pc \in {"returned", "loop"}

\* C14 witness: main_step has returned after a failed capture read, having
\* made the capture call only.
C14_Witness ==
    /\ succeeded = "False"
    /\ pc = "returned"
    /\ calls = <<Call("capture", "")>>

\* A vector with an element greater than 1 or less than -1
OutOfRange(fp) ==
    \E i \in DOMAIN fp : fp[i] > FpUnit \/ fp[i] < -FpUnit

\* C15: for a fingerprint with an element outside [-1, 1], pack_fingerprint
\* raises ValueError and produces no bytes; in the loop no packed fingerprint
\* exists and no authenticate request is made for it, and the error ends the
\* iteration only: main_async logs it and is back at the top of the loop.
C15_RangeErrorBeforePacking ==
    OutOfRange(fingerprint) =>
        /\ pack_fingerprint(fingerprint).exc = "ValueError"
        /\ pack_fingerprint(fingerprint).bytes = <<>>
        /\ packed_fingerprint = <<>>
        /\ CallsOf("authenticate") = {}
        /\ \/ pc = "pack"
           \/ pc = "raised" /\ exc = "ValueError"
           \/ pc = "loop" /\ prev = "ValueError"

\* C15 witness: an iteration whose fingerprint has an element below -1 has
\* ended with the ValueError and the loop is back at its top.
C15_Witness ==
    /\ \E i \in DOMAIN fingerprint : fingerprint[i] < -FpUnit
    /\ \A i \in DOMAIN fingerprint : fingerprint[i] <= FpUnit
    /\ pc = "loop"
    /\ prev = "ValueError"
    /\ CallsOf("pack") # {}

\* The signed 16-bit integer that two bytes, low byte first, stand for
UnpackShort(lo, hi) ==
    LET u == lo + 256 * hi IN IF u >= TwoTo15 THEN u - 2 * TwoTo15 ELSE u

\* C16: in the bytes pack_fingerprint returns, every element is encoded
\* without wrapping: the 16-bit value n of element x has n <= x * 2^15 <= n + 1
\* and lies in the signed 16-bit range, and an element of exactly 1.0 is
\* encoded as 32767.
C16_NoWrapAtBoundary ==
    pc = "request" =>
        /\ Len(packed_fingerprint) = 2 * Len(fingerprint)
        /\ \A i \in DOMAIN fingerprint :
              LET n == UnpackShort(packed_fingerprint[2 * i - 1],
                                   packed_fingerprint[2 * i])
              IN  /\ Int16Min <= ScaledFloor(fingerprint[i])
                  /\ ScaledFloor(fingerprint[i]) <= Int16Max
                  /\ 2 * n <= fingerprint[i]
                  /\ fingerprint[i] <= 2 * n + 2
                  /\ fingerprint[i] = FpUnit => n = Int16Max

\* C16 witness: a fingerprint with an element of exactly 1.0 has been packed.
C16_Witness ==
    /\ pc = "request"
    /\ \E i \in DOMAIN fingerprint : fingerprint[i] = FpUnit
    /\ packed_fingerprint # <<>>

\* C17: one iteration makes at most one authenticate request, whatever the
\* response or failure.
C17_OneAuthenticatePerIteration ==
    Cardinality(CallsOf("authenticate")) <= 1

\* C17 witness: the exchange failed, main_step has raised, and the one request
\* is all the iteration made.
C17_Witness ==
    /\ pc = "raised"
    /\ exc = "ClientError"
    /\ Cardinality(CallsOf("authenticate")) = 1

\* The positions among the first k prescriptions of `data` whose din is in
\* din_to_motor
StockedUpTo(k) ==
    {i \in 1..k : Stocked(data.prescriptions[i].din)}

C19_MotorMapImmutable ==
    [][pc # "main" => din_to_motor' = din_to_motor]_vars

\* C19 witness: the loop is in its second iteration, holding an authenticate
\* response, with a loaded map of two dins.
C19_Witness ==
    /\ iter >= 2
    /\ pc = "check"
    /\ DOMAIN din_to_motor = Dins

====
